---- MODULE Spec2Model ----
(***************************************************************************)
(* The text tree of aretext (internal/pkg/text/tree.go): bulk loading of a *)
(* UTF-8 byte stream into leaf groups, construction of the inner layers,   *)
(* descent to a character position, and sequential reading by a Cursor.    *)
(*                                                                         *)
(* Go indices (nodeIdx, textByteOffset, key index) are kept 0-based as in  *)
(* the source; the arrays are TLA+ functions over 1..N, so a[i] of the     *)
(* source is a[i + 1] here.  A pointer to a group is the group's index in  *)
(* its layer (leafGroups, or layers[k]); 0 is the nil pointer.             *)
(***************************************************************************)
EXTENDS Integers, Sequences, FiniteSets, TLC

(***************************************************************************)
(* Capacities.  The source fixes maxKeysPerNode = 64 and maxBytesPerLeaf = *)
(* 63 (tree.go:170-172) and reads the stream through a buffer of 1024      *)
(* bytes (tree.go:50).  The algorithms are parametric in these numbers, so *)
(* the model runs them with small capacities: documents of a dozen bytes   *)
(* then fill leaves, fill leaf groups and need three inner layers.  A leaf *)
(* holds at least as many bytes as the longest character of the alphabet,  *)
(* as in the source (63 >= 4), so every full leaf holds a lead byte.       *)
(***************************************************************************)
maxKeysPerNode == 2
maxNodesPerGroup == maxKeysPerNode
maxBytesPerLeaf == 3
BufLen == 2

\* Longest stream, how far past the last character a position may lie,
\* longest buffer handed to Read.
MaxLen == 13
MaxPastEnd == 1
MaxReadLen == 3

\* The bytes a stream may deliver: '\n', a continuation byte and the lead
\* byte of a three-byte character (E2 A9 A9 is U+2A69).
Bytes == {10, 169, 226}

\* The errors a stream may return besides io.EOF.
StreamErrors == {"ErrClosedPipe", "ErrUnexpectedEOF"}

Min(a, b) == IF a < b THEN a ELSE b

(***************************************************************************)
(* The streaming UTF-8 validator (text.Validator).                         *)
(* need: continuation bytes still missing; lo..hi: range of the next one.  *)
(***************************************************************************)
NewValidator == [ok |-> TRUE, need |-> 0, lo |-> 128, hi |-> 191]

ValidateByte(v, b) ==
    IF ~v.ok THEN v
    ELSE IF v.need > 0
    THEN IF b >= v.lo /\ b <= v.hi
         THEN [ok |-> TRUE, need |-> v.need - 1, lo |-> 128, hi |-> 191]
         ELSE [v EXCEPT !.ok = FALSE, !.need = 0]
    ELSE IF b < 128 THEN v
    ELSE IF b >= 194 /\ b <= 223 THEN [ok |-> TRUE, need |-> 1, lo |-> 128, hi |-> 191]
    ELSE IF b = 224 THEN [ok |-> TRUE, need |-> 2, lo |-> 160, hi |-> 191]
    ELSE IF b = 237 THEN [ok |-> TRUE, need |-> 2, lo |-> 128, hi |-> 159]
    ELSE IF b >= 225 /\ b <= 239 THEN [ok |-> TRUE, need |-> 2, lo |-> 128, hi |-> 191]
    ELSE IF b = 240 THEN [ok |-> TRUE, need |-> 3, lo |-> 144, hi |-> 191]
    ELSE IF b = 244 THEN [ok |-> TRUE, need |-> 3, lo |-> 128, hi |-> 143]
    ELSE IF b >= 241 /\ b <= 243 THEN [ok |-> TRUE, need |-> 3, lo |-> 128, hi |-> 191]
    ELSE [v EXCEPT !.ok = FALSE]

RECURSIVE ValidateFrom(_, _, _)
ValidateFrom(v, chunk, i) ==
    IF i > Len(chunk) THEN v ELSE ValidateFrom(ValidateByte(v, chunk[i]), chunk, i + 1)

\* The validator after chunk; its ok field is ValidateBytes' result.
ValidateBytes(v, chunk) == ValidateFrom(v, chunk, 1)

ValidateEnd(v) == v.ok /\ v.need = 0

(***************************************************************************)
(* Leaves, keys and groups.                                                *)
(***************************************************************************)
\* utf8StartByteIndicator[b]: 1 for 0xxxxxxx, 110xxxxx, 1110xxxx, 11110xxx.
utf8StartByteIndicator(b) ==
    IF \/ b \div 128 = 0
       \/ b \div 32 = 6
       \/ b \div 16 = 14
       \/ b \div 8 = 30
    THEN 1 ELSE 0

indexKey(nc, nl) == [numChars |-> nc, numLines |-> nl]

leafNode == [numBytes |-> 0, textBytes |-> [i \in 1..maxBytesPerLeaf |-> 0]]

\* &leafNodeGroup{numNodes: n}
leafNodeGroup(n) ==
    [prev |-> 0, next |-> 0, numNodes |-> n,
     nodes |-> [i \in 1..maxNodesPerGroup |-> leafNode]]

innerNode == [child |-> 0, numKeys |-> 0,
              keys |-> [i \in 1..maxKeysPerNode |-> indexKey(0, 0)]]

\* &innerNodeGroup{numNodes: n}
innerNodeGroup(n) ==
    [numNodes |-> n, nodes |-> [i \in 1..maxNodesPerGroup |-> innerNode]]

RECURSIVE leafKeyFrom(_, _, _)
leafKeyFrom(l, i, key) ==
    IF i >= l.numBytes THEN key
    ELSE LET b == l.textBytes[i + 1]
         IN  leafKeyFrom(l, i + 1,
                 indexKey(key.numChars + utf8StartByteIndicator(b),
                          IF b = 10 THEN key.numLines + 1 ELSE key.numLines))

\* leafNode.key
leafKey(l) == leafKeyFrom(l, 0, indexKey(0, 0))

RECURSIVE innerKeyFrom(_, _, _)
innerKeyFrom(n, i, nodeKey) ==
    IF i >= n.numKeys THEN nodeKey
    ELSE innerKeyFrom(n, i + 1,
             indexKey(nodeKey.numChars + n.keys[i + 1].numChars,
                      nodeKey.numLines + n.keys[i + 1].numLines))

RECURSIVE innerKeyCharsOnlyFrom(_, _, _)
innerKeyCharsOnlyFrom(n, i, nodeKey) ==
    IF i >= n.numKeys THEN nodeKey
    ELSE innerKeyCharsOnlyFrom(n, i + 1,
             indexKey(nodeKey.numChars + n.keys[i + 1].numChars,
                      nodeKey.numLines + n.keys[i + 1].numChars))

\* Mutant of innerKey: the line count is summed from the numChars fields.
innerKeyCharsOnly(n) == innerKeyCharsOnlyFrom(n, 0, indexKey(0, 0))

\* innerNode.key
innerKey(n) == innerKeyFrom(n, 0, indexKey(0, 0))

\* leafNodeGroup.keys
leafGroupKeys(g) == [i \in 1..g.numNodes |-> leafKey(g.nodes[i])]

\* innerNodeGroup.keys
innerGroupKeys(g) == [i \in 1..g.numNodes |-> innerKey(g.nodes[i])]

RECURSIVE byteOffsetFrom(_, _, _, _)
byteOffsetFrom(l, charPos, i, n) ==
    IF i >= l.numBytes THEN l.numBytes
    ELSE LET c == utf8StartByteIndicator(l.textBytes[i + 1])
         IN  IF c > 0 /\ n = charPos THEN i % 256
             ELSE byteOffsetFrom(l, charPos, i + 1, n + c)

RECURSIVE byteOffsetFallbackZeroFrom(_, _, _, _)
byteOffsetFallbackZeroFrom(l, charPos, i, n) ==
    IF i >= l.numBytes THEN 0
    ELSE LET c == utf8StartByteIndicator(l.textBytes[i + 1])
         IN  IF c > 0 /\ n = charPos THEN i % 256
             ELSE byteOffsetFallbackZeroFrom(l, charPos, i + 1, n + c)

\* Mutant of byteOffsetForPosition: offset 0, not numBytes, when the leaf
\* has no character charPos.
byteOffsetFallbackZero(l, charPos) == byteOffsetFallbackZeroFrom(l, charPos, 0, 0)

RECURSIVE byteOffsetNoLeadTestFrom(_, _, _, _)
byteOffsetNoLeadTestFrom(l, charPos, i, n) ==
    IF i >= l.numBytes THEN l.numBytes
    ELSE LET c == utf8StartByteIndicator(l.textBytes[i + 1])
         IN  IF n = charPos THEN i % 256
             ELSE byteOffsetNoLeadTestFrom(l, charPos, i + 1, n + c)

\* Mutant of byteOffsetForPosition: the test c > 0 is missing, so the
\* offset may be that of a continuation byte.
byteOffsetNoLeadTest(l, charPos) == byteOffsetNoLeadTestFrom(l, charPos, 0, 0)

\* leafNode.byteOffsetForPosition
byteOffsetForPosition(l, charPos) == byteOffsetFrom(l, charPos, 0, 0)

(***************************************************************************)
(* bulkLoadIntoLeaves.  The loader's locals are the record                 *)
(* [leafGroups, currentGroup, currentNode]; currentNode is the pointer     *)
(* &leafGroups[g].nodes[i].                                                *)
(***************************************************************************)
\* Lines 45-48: one group of one empty leaf.
bulkLoadStart ==
    [leafGroups |-> <<leafNodeGroup(1)>>,
     currentGroup |-> 1,
     currentNode |-> [g |-> 1, i |-> 0]]

\* Mutant of nextLeaf: currentGroup.next = newGroup (line 74) is missing.
nextLeafNoNextLink(st) ==
    LET node == st.leafGroups[st.currentNode.g].nodes[st.currentNode.i + 1]
        cg == st.currentGroup
        ng == Len(st.leafGroups) + 1
    IN  IF node.numBytes = maxBytesPerLeaf
        THEN IF st.leafGroups[cg].numNodes < maxNodesPerGroup
             THEN [st EXCEPT
                      !.currentNode = [g |-> cg, i |-> st.leafGroups[cg].numNodes],
                      !.leafGroups[cg].numNodes = @ + 1]
             ELSE [leafGroups |->
                      Append(st.leafGroups, [leafNodeGroup(1) EXCEPT !.prev = cg]),
                   currentGroup |-> ng,
                   currentNode |-> [g |-> ng, i |-> 0]]
        ELSE st

\* Mutant of nextLeaf: a leaf counts as full one byte early.
nextLeafShortLeaf(st) ==
    LET node == st.leafGroups[st.currentNode.g].nodes[st.currentNode.i + 1]
        cg == st.currentGroup
        ng == Len(st.leafGroups) + 1
    IN  IF node.numBytes >= maxBytesPerLeaf - 1
        THEN IF st.leafGroups[cg].numNodes < maxNodesPerGroup
             THEN [st EXCEPT
                      !.currentNode = [g |-> cg, i |-> st.leafGroups[cg].numNodes],
                      !.leafGroups[cg].numNodes = @ + 1]
             ELSE [leafGroups |->
                      Append([st.leafGroups EXCEPT ![cg].next = ng],
                             [leafNodeGroup(1) EXCEPT !.prev = cg]),
                   currentGroup |-> ng,
                   currentNode |-> [g |-> ng, i |-> 0]]
        ELSE st

\* Mutant of nextLeaf: newGroup.prev = currentGroup (line 73) is missing.
nextLeafNoPrevLink(st) ==
    LET node == st.leafGroups[st.currentNode.g].nodes[st.currentNode.i + 1]
        cg == st.currentGroup
        ng == Len(st.leafGroups) + 1
    IN  IF node.numBytes = maxBytesPerLeaf
        THEN IF st.leafGroups[cg].numNodes < maxNodesPerGroup
             THEN [st EXCEPT
                      !.currentNode = [g |-> cg, i |-> st.leafGroups[cg].numNodes],
                      !.leafGroups[cg].numNodes = @ + 1]
             ELSE [leafGroups |->
                      Append([st.leafGroups EXCEPT ![cg].next = ng], leafNodeGroup(1)),
                   currentGroup |-> ng,
                   currentNode |-> [g |-> ng, i |-> 0]]
        ELSE st

\* Lines 66-78: the leaf (and the group) the next byte goes to.
nextLeaf(st) ==
    LET node == st.leafGroups[st.currentNode.g].nodes[st.currentNode.i + 1]
        cg == st.currentGroup
        ng == Len(st.leafGroups) + 1
    IN  IF node.numBytes = maxBytesPerLeaf
        THEN IF st.leafGroups[cg].numNodes < maxNodesPerGroup
             THEN [st EXCEPT
                      !.currentNode = [g |-> cg, i |-> st.leafGroups[cg].numNodes],
                      !.leafGroups[cg].numNodes = @ + 1]
             ELSE [leafGroups |->
                      Append([st.leafGroups EXCEPT ![cg].next = ng],
                             [leafNodeGroup(1) EXCEPT !.prev = cg]),
                   currentGroup |-> ng,
                   currentNode |-> [g |-> ng, i |-> 0]]
        ELSE st

\* Lines 66-81: one iteration of the loop over the bytes of a chunk.
appendByte(st, b) ==
    LET s1 == nextLeaf(st)
        g == s1.currentNode.g
        i == s1.currentNode.i
        nb == s1.leafGroups[g].nodes[i + 1].numBytes
    IN  [s1 EXCEPT !.leafGroups[g].nodes[i + 1] =
            [numBytes |-> (nb + 1) % 256,
             textBytes |-> [@.textBytes EXCEPT ![nb + 1] = b]]]

RECURSIVE appendBytes(_, _, _)
\* Lines 65-82: for i := 0; i < n; i++
appendBytes(st, chunk, i) ==
    IF i >= Len(chunk) THEN st
    ELSE appendBytes(appendByte(st, chunk[i + 1]), chunk, i + 1)

(***************************************************************************)
(* buildInnerNodesFromLeaves.  layers[k] is the k-th inner layer, a        *)
(* sequence of inner groups (the source's parentGroups); the child of a    *)
(* node of layers[1] points into leafGroups, the child of a node of        *)
(* layers[k + 1] into layers[k].  childKeys[j] is cg.keys() of the j-th    *)
(* child group.                                                            *)
(***************************************************************************)
RECURSIVE copyKeys(_, _, _)
\* Lines 109-112.
copyKeys(node, keys, i) ==
    IF i >= Len(keys) THEN node
    ELSE copyKeys([node EXCEPT !.keys[i + 1] = keys[i + 1],
                               !.numKeys = (@ + 1) % 256],
                  keys, i + 1)

\* Mutant of addChild: the child pointer is taken by the node's index in its
\* own group, not by the index of the child group in the layer below.
addChildLocalIndex(parentGroups, j, keys) ==
    LET pg == IF parentGroups[Len(parentGroups)].numNodes = maxNodesPerGroup
              THEN Append(parentGroups, innerNodeGroup(0))
              ELSE parentGroups
        cur == Len(pg)
        nn == pg[cur].numNodes
    IN  [pg EXCEPT ![cur] =
            [numNodes |-> nn + 1,
             nodes |-> [@.nodes EXCEPT ![nn + 1] =
                           copyKeys([@ EXCEPT !.child = nn + 1], keys, 0)]]]

\* Lines 101-113: one iteration of the loop over childGroups; currentGroup
\* is the group appended last.
addChild(parentGroups, j, keys) ==
    LET pg == IF parentGroups[Len(parentGroups)].numNodes = maxNodesPerGroup
              THEN Append(parentGroups, innerNodeGroup(0))
              ELSE parentGroups
        cur == Len(pg)
        nn == pg[cur].numNodes
    IN  [pg EXCEPT ![cur] =
            [numNodes |-> nn + 1,
             nodes |-> [@.nodes EXCEPT ![nn + 1] =
                           copyKeys([@ EXCEPT !.child = j], keys, 0)]]]

RECURSIVE addChildren(_, _, _)
\* Lines 100-114.
addChildren(parentGroups, childKeys, j) ==
    IF j > Len(childKeys) THEN parentGroups
    ELSE addChildren(addChild(parentGroups, j, childKeys[j]), childKeys, j + 1)

\* Mutant of isStreamError: io.ErrUnexpectedEOF is taken for io.EOF.
isStreamErrorLenient(rerr) == rerr # "nil" /\ rerr # "EOF" /\ rerr # "ErrUnexpectedEOF"

\* Line 53: the stream's Read failed.
isStreamError(rerr) == rerr # "nil" /\ rerr # "EOF"

\* Mutant of isRootLayer: a layer of one group is the root layer, however
\* many nodes the group holds.
isRootLayerOneGroup(parentGroups) == Len(parentGroups) = 1

\* Line 116: the layer is the root layer.
isRootLayer(parentGroups) ==
    Len(parentGroups) = 1 /\ parentGroups[Len(parentGroups)].numNodes = 1

RECURSIVE buildLayersNoTopLayer(_, _)
\* Mutant of buildLayers: the loop ends once the child groups have fitted
\* into one parent group, without the layer of one node above it.
buildLayersNoTopLayer(layers, childKeys) ==
    LET parentGroups == addChildren(<<innerNodeGroup(0)>>, childKeys, 1)
    IN  IF Len(childKeys) <= maxNodesPerGroup
        THEN Append(layers, parentGroups)
        ELSE buildLayersNoTopLayer(Append(layers, parentGroups),
                 [j \in 1..Len(parentGroups) |-> innerGroupKeys(parentGroups[j])])

RECURSIVE buildLayers(_, _)
\* Lines 95-121.
buildLayers(layers, childKeys) ==
    LET parentGroups == addChildren(<<innerNodeGroup(0)>>, childKeys, 1)
    IN  IF isRootLayer(parentGroups)
        THEN Append(layers, parentGroups)
        ELSE buildLayers(Append(layers, parentGroups),
                 [j \in 1..Len(parentGroups) |-> innerGroupKeys(parentGroups[j])])

buildInnerNodesFromLeaves(leafGroups) ==
    buildLayers(<< >>, [j \in 1..Len(leafGroups) |-> leafGroupKeys(leafGroups[j])])

\* Mutant of newTreeLayers: root.nodes[0].numKeys = 1 (line 27) is missing.
newTreeLayersNoKeys ==
    << << [innerNodeGroup(1) EXCEPT !.nodes[1].child = 1] >> >>

\* NewTree, lines 25-27: the layers of the empty tree.
newTreeLayers ==
    << << [innerNodeGroup(1) EXCEPT !.nodes[1].child = 1, !.nodes[1].numKeys = 1] >> >>

(***************************************************************************)
(* Descent.  t is [leafGroups, layers]; a group is [layer, idx], layer 0   *)
(* being the leaf groups.                                                  *)
(***************************************************************************)
Cursor(g, n, off) == [group |-> g, nodeIdx |-> n, textByteOffset |-> off]

\* Mutant of leafGroupCursorAtPosition: position 0 of a leaf is taken to be
\* its byte 0, without looking for the first lead byte.
leafGroupCursorAtPositionZeroIsZero(t, gidx, nodeIdx, charPos) ==
    Cursor(gidx, nodeIdx,
           IF charPos = 0 /\ t.leafGroups[gidx].nodes[nodeIdx + 1].numBytes > 0 THEN 0
           ELSE byteOffsetForPosition(t.leafGroups[gidx].nodes[nodeIdx + 1], charPos))

\* leafNodeGroup.cursorAtPosition
leafGroupCursorAtPosition(t, gidx, nodeIdx, charPos) ==
    Cursor(gidx, nodeIdx,
           byteOffsetForPosition(t.leafGroups[gidx].nodes[nodeIdx + 1], charPos))

RECURSIVE groupCursorAtPosition(_, _, _, _, _)
RECURSIVE innerScan(_, _, _, _, _, _)

RECURSIVE innerScanLE(_, _, _, _, _, _)
\* Mutant of innerScan: charPos <= c + nc in place of charPos < c + nc.
innerScanLE(t, layer, n, charPos, i, c) ==
    IF i < (n.numKeys - 1) % 256
    THEN LET nc == n.keys[i + 1].numChars
         IN  IF charPos <= c + nc
             THEN groupCursorAtPosition(t, layer - 1, n.child, i, charPos - c)
             ELSE innerScanLE(t, layer, n, charPos, i + 1, c + nc)
    ELSE groupCursorAtPosition(t, layer - 1, n.child, (n.numKeys - 1) % 256, charPos - c)

\* innerNode.cursorAtPosition, the loop of lines 240-248 from key i on.
innerScan(t, layer, n, charPos, i, c) ==
    IF i < (n.numKeys - 1) % 256
    THEN LET nc == n.keys[i + 1].numChars
         IN  IF charPos < c + nc
             THEN groupCursorAtPosition(t, layer - 1, n.child, i, charPos - c)
             ELSE innerScan(t, layer, n, charPos, i + 1, c + nc)
    ELSE groupCursorAtPosition(t, layer - 1, n.child, (n.numKeys - 1) % 256, charPos - c)

\* innerNode.cursorAtPosition
innerNodeCursorAtPosition(t, layer, n, charPos) == innerScan(t, layer, n, charPos, 0, 0)

\* nodeGroup.cursorAtPosition, dispatched on the kind of group.
groupCursorAtPosition(t, layer, gidx, nodeIdx, charPos) ==
    IF layer = 0
    THEN leafGroupCursorAtPosition(t, gidx, nodeIdx, charPos)
    ELSE innerNodeCursorAtPosition(t, layer, t.layers[layer][gidx].nodes[nodeIdx + 1], charPos)

\* Tree.CursorAtPosition: t.root.cursorAtPosition(0, charPos)
treeCursorAtPosition(t, root, charPos) ==
    groupCursorAtPosition(t, root.layer, root.idx, 0, charPos)

(***************************************************************************)
(* Cursor.Read.  r is [c, i, data]: the cursor, the bytes copied so far    *)
(* and the filled part of b.                                               *)
(***************************************************************************)
\* Mutant of readStep: c.textByteOffset = 0 (line 157) is missing.
readStepNoOffsetReset(t, r, lenb) ==
    LET c == r.c
        node == t.leafGroups[c.group].nodes[c.nodeIdx + 1]
        bytesWritten == Min(lenb - r.i, node.numBytes - c.textByteOffset)
        off1 == (c.textByteOffset + bytesWritten) % 256
        c1 == IF off1 = node.numBytes
              THEN Cursor(c.group, (c.nodeIdx + 1) % 256, off1)
              ELSE Cursor(c.group, c.nodeIdx, off1)
        c2 == IF c1.nodeIdx = t.leafGroups[c.group].numNodes
              THEN Cursor(t.leafGroups[c.group].next, 0, 0)
              ELSE c1
    IN  [c |-> c2,
         i |-> r.i + bytesWritten,
         data |-> r.data \o [k \in 1..bytesWritten |->
                                node.textBytes[c.textByteOffset + k]]]

\* Mutant of readStep: c.nodeIdx++ (line 156) is missing.
readStepNoNodeAdvance(t, r, lenb) ==
    LET c == r.c
        node == t.leafGroups[c.group].nodes[c.nodeIdx + 1]
        bytesWritten == Min(lenb - r.i, node.numBytes - c.textByteOffset)
        off1 == (c.textByteOffset + bytesWritten) % 256
        c1 == IF off1 = node.numBytes
              THEN Cursor(c.group, c.nodeIdx, 0)
              ELSE Cursor(c.group, c.nodeIdx, off1)
        c2 == IF c1.nodeIdx = t.leafGroups[c.group].numNodes
              THEN Cursor(t.leafGroups[c.group].next, 0, 0)
              ELSE c1
    IN  [c |-> c2,
         i |-> r.i + bytesWritten,
         data |-> r.data \o [k \in 1..bytesWritten |->
                                node.textBytes[c.textByteOffset + k]]]

\* Mutant of readStep: the end of the group (line 160) is tested against
\* maxNodesPerGroup, not against the group's numNodes.
readStepGroupEndByCapacity(t, r, lenb) ==
    LET c == r.c
        node == t.leafGroups[c.group].nodes[c.nodeIdx + 1]
        bytesWritten == Min(lenb - r.i, node.numBytes - c.textByteOffset)
        off1 == (c.textByteOffset + bytesWritten) % 256
        c1 == IF off1 = node.numBytes
              THEN Cursor(c.group, (c.nodeIdx + 1) % 256, 0)
              ELSE Cursor(c.group, c.nodeIdx, off1)
        c2 == IF c1.nodeIdx = maxNodesPerGroup
              THEN Cursor(t.leafGroups[c.group].next, 0, 0)
              ELSE c1
    IN  [c |-> c2,
         i |-> r.i + bytesWritten,
         data |-> r.data \o [k \in 1..bytesWritten |->
                                node.textBytes[c.textByteOffset + k]]]

\* Mutant of readStep: at the end of a group the cursor moves to the group's
\* prev, not to its next (line 161).
readStepFollowsPrev(t, r, lenb) ==
    LET c == r.c
        node == t.leafGroups[c.group].nodes[c.nodeIdx + 1]
        bytesWritten == Min(lenb - r.i, node.numBytes - c.textByteOffset)
        off1 == (c.textByteOffset + bytesWritten) % 256
        c1 == IF off1 = node.numBytes
              THEN Cursor(c.group, (c.nodeIdx + 1) % 256, 0)
              ELSE Cursor(c.group, c.nodeIdx, off1)
        c2 == IF c1.nodeIdx = t.leafGroups[c.group].numNodes
              THEN Cursor(t.leafGroups[c.group].prev, 0, 0)
              ELSE c1
    IN  [c |-> c2,
         i |-> r.i + bytesWritten,
         data |-> r.data \o [k \in 1..bytesWritten |->
                                node.textBytes[c.textByteOffset + k]]]

\* Lines 150-164: one iteration of the loop that does not return.
readStep(t, r, lenb) ==
    LET c == r.c
        node == t.leafGroups[c.group].nodes[c.nodeIdx + 1]
        bytesWritten == Min(lenb - r.i, node.numBytes - c.textByteOffset)
        off1 == (c.textByteOffset + bytesWritten) % 256
        c1 == IF off1 = node.numBytes
              THEN Cursor(c.group, (c.nodeIdx + 1) % 256, 0)
              ELSE Cursor(c.group, c.nodeIdx, off1)
        c2 == IF c1.nodeIdx = t.leafGroups[c.group].numNodes
              THEN Cursor(t.leafGroups[c.group].next, 0, 0)
              ELSE c1
    IN  [c |-> c2,
         i |-> r.i + bytesWritten,
         data |-> r.data \o [k \in 1..bytesWritten |->
                                node.textBytes[c.textByteOffset + k]]]

RECURSIVE readLoopEofFirst(_, _, _)
\* Mutant of readLoop: c.group == nil is tested before i == len(b).
readLoopEofFirst(t, r, lenb) ==
    IF r.c.group = 0 THEN [c |-> r.c, n |-> r.i, err |-> "EOF", data |-> r.data]
    ELSE IF r.i = lenb THEN [c |-> r.c, n |-> r.i, err |-> "nil", data |-> r.data]
    ELSE readLoopEofFirst(t, readStep(t, r, lenb), lenb)

RECURSIVE readLoop(_, _, _)
\* Lines 141-165; the result is [c, n, err, data].
readLoop(t, r, lenb) ==
    IF r.i = lenb THEN [c |-> r.c, n |-> r.i, err |-> "nil", data |-> r.data]
    ELSE IF r.c.group = 0 THEN [c |-> r.c, n |-> r.i, err |-> "EOF", data |-> r.data]
    ELSE readLoop(t, readStep(t, r, lenb), lenb)

\* Cursor.Read
cursorRead(t, c, lenb) == readLoop(t, [c |-> c, i |-> 0, data |-> << >>], lenb)

(***************************************************************************)
(* The state.                                                              *)
(*   pc        "idle": nothing built; "load": inside bulkLoadIntoLeaves'   *)
(*             loop; "failed": NewTreeFromReader returned nil and an       *)
(*             error; "tree": a tree was returned; "cursor": a cursor of   *)
(*             that tree exists                                            *)
(*   validator the tree's Validator                                        *)
(*   ld        the locals of bulkLoadIntoLeaves                            *)
(*   heap      the groups of the returned tree: [leafGroups, layers]       *)
(*   tree      the returned *Tree: [root], root [layer 0, idx 0] for nil   *)
(*   err       the returned error                                          *)
(*   src       the bytes of the stream loaded into the leaves so far       *)
(*   rres      what the stream's last Read returned: [n, err]              *)
(*   cursor    the Cursor                                                  *)
(*   startPos  the charPos the cursor was created at                       *)
(*   out       the bytes the cursor's Reads have returned, in order        *)
(*   rd        the cursor's last Read: the cursor before it, len(b), the   *)
(*             returned n and error, b[0..n), and whether it was the       *)
(*             cursor's first Read; err is "none" before the first Read    *)
(***************************************************************************)
VARIABLES pc, validator, ld, heap, tree, err, src, rres, cursor, startPos, out, rd

vars == <<pc, validator, ld, heap, tree, err, src, rres, cursor, startPos, out, rd>>

noLoad == [leafGroups |-> << >>, currentGroup |-> 0, currentNode |-> [g |-> 0, i |-> 0]]
noHeap == [leafGroups |-> << >>, layers |-> << >>]
nilTree == [root |-> [layer |-> 0, idx |-> 0]]
noRead == [before |-> Cursor(0, 0, 0), len |-> 0, n |-> 0, err |-> "none",
           data |-> << >>, first |-> FALSE]

Init ==
    /\ pc = "idle"
    /\ validator = NewValidator
    /\ ld = noLoad
    /\ heap = noHeap
    /\ tree = nilTree
    /\ err = "nil"
    /\ src = << >>
    /\ rres = [n |-> 0, err |-> "none"]
    /\ cursor = Cursor(0, 0, 0)
    /\ startPos = 0
    /\ out = << >>
    /\ rd = noRead

\* NewTree
NewTree ==
    /\ pc = "idle"
    /\ pc' = "tree"
    /\ validator' = NewValidator
    /\ heap' = [leafGroups |-> <<leafNodeGroup(1)>>, layers |-> newTreeLayers]
    /\ tree' = [root |-> [layer |-> 1, idx |-> 1]]
    /\ UNCHANGED <<ld, err, src, rres, cursor, startPos, out, rd>>

\* NewTreeFromReader up to the first Read: lines 35 and 45-50.
NewTreeFromReader ==
    /\ pc = "idle"
    /\ pc' = "load"
    /\ validator' = NewValidator
    /\ ld' = bulkLoadStart
    /\ UNCHANGED <<heap, tree, err, src, rres, cursor, startPos, out, rd>>

\* What NewTreeFromReader returns when bulkLoadIntoLeaves returns nil, e.
Fail(e) ==
    /\ pc' = "failed"
    /\ ld' = noLoad
    /\ heap' = noHeap
    /\ tree' = nilTree
    /\ err' = e

\* Mutant of Finish: ValidateEnd (lines 85-87) is not called.
FinishNoValidateEnd ==
    /\ pc' = "tree"
    /\ ld' = noLoad
    /\ heap' = [leafGroups |-> ld.leafGroups,
                layers |-> buildInnerNodesFromLeaves(ld.leafGroups)]
    /\ tree' = [root |-> [layer |-> Len(heap'.layers), idx |-> 1]]
    /\ err' = "nil"
    /\ UNCHANGED validator

\* Lines 85-89 and 40-41: the loop was left by break.
Finish ==
    IF ~ValidateEnd(validator)
    THEN Fail("invalid UTF-8") /\ UNCHANGED validator
    ELSE /\ pc' = "tree"
         /\ ld' = noLoad
         /\ heap' = [leafGroups |-> ld.leafGroups,
                     layers |-> buildInnerNodesFromLeaves(ld.leafGroups)]
         /\ tree' = [root |-> [layer |-> Len(heap'.layers), idx |-> 1]]
         /\ err' = "nil"
         /\ UNCHANGED validator

\* Mutant of BulkLoadRead: the loop is left on io.EOF before the bytes
\* returned together with it are looked at.
BulkLoadReadEofFirst(chunk, rerr) ==
    /\ pc = "load"
    /\ Len(src) + Len(chunk) <= MaxLen
    /\ rres.err = "EOF" => (Len(chunk) = 0 /\ rerr = "EOF")
    /\ rres' = [n |-> Len(chunk), err |-> rerr]
    /\ IF isStreamError(rerr)
       THEN Fail(rerr) /\ UNCHANGED <<validator, src>>
       ELSE IF Len(chunk) = 0 \/ rerr = "EOF"
       THEN Finish /\ src' = src \o chunk
       ELSE IF ~ValidateBytes(validator, chunk).ok
       THEN /\ Fail("invalid UTF-8")
            /\ validator' = ValidateBytes(validator, chunk)
            /\ UNCHANGED src
       ELSE /\ validator' = ValidateBytes(validator, chunk)
            /\ ld' = appendBytes(ld, chunk, 0)
            /\ src' = src \o chunk
            /\ UNCHANGED <<pc, heap, tree, err>>
    /\ UNCHANGED <<cursor, startPos, out, rd>>

\* Mutant of BulkLoadRead: the loop is left only on a Read of zero bytes
\* that comes with io.EOF.
BulkLoadReadBreakOnEof(chunk, rerr) ==
    /\ pc = "load"
    /\ Len(src) + Len(chunk) <= MaxLen
    /\ rres.err = "EOF" => (Len(chunk) = 0 /\ rerr = "EOF")
    /\ rres' = [n |-> Len(chunk), err |-> rerr]
    /\ IF isStreamError(rerr)
       THEN Fail(rerr) /\ UNCHANGED <<validator, src>>
       ELSE IF Len(chunk) = 0 /\ rerr = "EOF"
       THEN Finish /\ UNCHANGED src
       ELSE IF ~ValidateBytes(validator, chunk).ok
       THEN /\ Fail("invalid UTF-8")
            /\ validator' = ValidateBytes(validator, chunk)
            /\ UNCHANGED src
       ELSE /\ validator' = ValidateBytes(validator, chunk)
            /\ ld' = appendBytes(ld, chunk, 0)
            /\ src' = src \o chunk
            /\ UNCHANGED <<pc, heap, tree, err>>
    /\ UNCHANGED <<cursor, startPos, out, rd>>

\* One iteration of the loop of bulkLoadIntoLeaves (lines 51-83), the
\* stream's Read returning the n bytes of chunk and the error rerr; a
\* stream that has returned io.EOF keeps returning 0, io.EOF.
BulkLoadRead(chunk, rerr) ==
    /\ pc = "load"
    /\ Len(src) + Len(chunk) <= MaxLen
    /\ rres.err = "EOF" => (Len(chunk) = 0 /\ rerr = "EOF")
    /\ rres' = [n |-> Len(chunk), err |-> rerr]
    /\ IF isStreamError(rerr)
       THEN Fail(rerr) /\ UNCHANGED <<validator, src>>
       ELSE IF Len(chunk) = 0
       THEN Finish /\ UNCHANGED src
       ELSE IF ~ValidateBytes(validator, chunk).ok
       THEN /\ Fail("invalid UTF-8")
            /\ validator' = ValidateBytes(validator, chunk)
            /\ UNCHANGED src
       ELSE /\ validator' = ValidateBytes(validator, chunk)
            /\ ld' = appendBytes(ld, chunk, 0)
            /\ src' = src \o chunk
            /\ UNCHANGED <<pc, heap, tree, err>>
    /\ UNCHANGED <<cursor, startPos, out, rd>>

\* The number of characters of a byte sequence: its bytes that are not
\* continuation bytes.
NumChars(S) == Cardinality({k \in 1..Len(S) : S[k] < 128 \/ S[k] > 191})

\* Tree.CursorAtPosition, called once on the returned tree.
CursorAtPosition(charPos) ==
    /\ pc = "tree"
    /\ charPos <= NumChars(src) + MaxPastEnd
    /\ pc' = "cursor"
    /\ cursor' = treeCursorAtPosition(heap, tree.root, charPos)
    /\ startPos' = charPos
    /\ out' = << >>
    /\ rd' = noRead
    /\ UNCHANGED <<validator, ld, heap, tree, err, src, rres>>

\* Cursor.Read with a buffer of lenb bytes.
Read(lenb) ==
    /\ pc = "cursor"
    /\ LET res == cursorRead(heap, cursor, lenb)
       IN  /\ cursor' = res.c
           /\ out' = out \o res.data
           /\ rd' = [before |-> cursor, len |-> lenb, n |-> res.n,
                     err |-> res.err, data |-> res.data, first |-> rd.err = "none"]
    /\ UNCHANGED <<pc, validator, ld, heap, tree, err, src, rres, startPos>>

Chunks == UNION {[1..n -> Bytes] : n \in 0..BufLen}

\* The streams of Spec follow io.Reader's advice: a Read returns 0 bytes
\* only together with io.EOF or an error.
ConventionalRead(chunk, rerr) == Len(chunk) = 0 => rerr # "nil"

Next ==
    \/ NewTree
    \/ NewTreeFromReader
    \/ \E chunk \in Chunks, rerr \in {"nil", "EOF"} \cup StreamErrors :
           ConventionalRead(chunk, rerr) /\ BulkLoadRead(chunk, rerr)
    \/ \E charPos \in 0..(MaxLen + MaxPastEnd) : CursorAtPosition(charPos)
    \/ \E lenb \in 0..MaxReadLen : Read(lenb)

Spec == Init /\ [][Next]_vars

\* Cursor.Read is called with a buffer of lenb bytes: line 140, i := 0.
\* While the call runs, cursor is the Cursor the loop works on and rd holds
\* the call's len(b), i and b[0..i), with err "running".
ReadCall(lenb) ==
    /\ pc = "cursor"
    /\ pc' = "reading"
    /\ rd' = [before |-> cursor, len |-> lenb, n |-> 0, err |-> "running",
              data |-> << >>, first |-> rd.err = "none"]
    /\ UNCHANGED <<validator, ld, heap, tree, err, src, rres, cursor, startPos, out>>

\* Lines 142-148: the loop of Read returns i, nil or i, io.EOF.
ReadReturn ==
    /\ pc = "reading"
    /\ rd.n = rd.len \/ cursor.group = 0
    /\ pc' = "cursor"
    /\ rd' = [rd EXCEPT !.err = IF rd.n = rd.len THEN "nil" ELSE "EOF"]
    /\ out' = out \o rd.data
    /\ UNCHANGED <<validator, ld, heap, tree, err, src, rres, cursor, startPos>>

\* Lines 150-164: an iteration of the loop of Read that does not return.
ReadIter ==
    /\ pc = "reading"
    /\ rd.n # rd.len /\ cursor.group # 0
    /\ LET r == readStep(heap, [c |-> cursor, i |-> rd.n, data |-> rd.data], rd.len)
       IN  /\ cursor' = r.c
           /\ rd' = [rd EXCEPT !.n = r.i, !.data = r.data]
    /\ UNCHANGED <<pc, validator, ld, heap, tree, err, src, rres, startPos, out>>

\* The program with Cursor.Read taken one loop iteration at a time.
NextReadSteps ==
    \/ NewTree
    \/ NewTreeFromReader
    \/ \E chunk \in Chunks, rerr \in {"nil", "EOF"} \cup StreamErrors :
           ConventionalRead(chunk, rerr) /\ BulkLoadRead(chunk, rerr)
    \/ \E charPos \in 0..(MaxLen + MaxPastEnd) : CursorAtPosition(charPos)
    \/ \E lenb \in 0..MaxReadLen : ReadCall(lenb)
    \/ ReadIter
    \/ ReadReturn

SpecReadSteps == Init /\ [][NextReadSteps]_vars

\* The loader over any stream: a Read may return 0 bytes with a nil error.
NextAnyStream ==
    \/ NewTreeFromReader
    \/ \E chunk \in Chunks, rerr \in {"nil", "EOF"} \cup StreamErrors :
           BulkLoadRead(chunk, rerr)

SpecAnyStream == Init /\ [][NextAnyStream]_vars

(***************************************************************************)
(* What the claims speak of.                                               *)
(***************************************************************************)
HasTree == pc \in {"tree", "cursor"}

IsContinuation(b) == b >= 128 /\ b <= 191

NumLines(S) == Cardinality({k \in 1..Len(S) : S[k] = 10})

\* The 0-based offset in S of the lead byte of character k (0-indexed);
\* Len(S) when S has no such character.
CharOffset(S, k) ==
    IF k >= NumChars(S) THEN Len(S)
    ELSE CHOOSE i \in 0..(Len(S) - 1) :
             /\ ~IsContinuation(S[i + 1])
             /\ NumChars(SubSeq(S, 1, i)) = k

\* The bytes of S from the lead byte of character k to the end.
Suffix(S, k) == SubSeq(S, CharOffset(S, k) + 1, Len(S))

WellFormed(S) == ValidateEnd(ValidateBytes(NewValidator, S))

\* The occupied bytes of a leaf.
LeafBytes(l) == SubSeq(l.textBytes, 1, l.numBytes)

RECURSIVE SumBytes(_, _)
\* The bytes held by the first k leaves of a leaf group.
SumBytes(g, k) == IF k = 0 THEN 0 ELSE SumBytes(g, k - 1) + g.nodes[k].numBytes

RECURSIVE BytesBeforeGroup(_)
\* The bytes held by the leaf groups before group gi.
BytesBeforeGroup(gi) ==
    IF gi <= 1 THEN 0
    ELSE BytesBeforeGroup(gi - 1)
         + SumBytes(heap.leafGroups[gi - 1], heap.leafGroups[gi - 1].numNodes)

\* The number of document bytes before a cursor.
AbsPos(c) ==
    IF c.group = 0 THEN BytesBeforeGroup(Len(heap.leafGroups) + 1)
    ELSE BytesBeforeGroup(c.group) + SumBytes(heap.leafGroups[c.group], c.nodeIdx)
         + c.textByteOffset

\* The cursor at the end of the last leaf of the last leaf group.
EndCursor ==
    LET gi == CHOOSE g \in 1..Len(heap.leafGroups) : heap.leafGroups[g].next = 0
        g == heap.leafGroups[gi]
    IN  Cursor(gi, g.numNodes - 1, g.nodes[g.numNodes].numBytes)

Drained == pc = "cursor" /\ rd.err = "EOF"

\* C1: a cursor created at position 0 and read until io.EOF has returned
\* exactly the bytes of the stream the tree was built from.
C1_RoundTrip ==
    (Drained /\ startPos = 0) => out = src

\* C1 witness: a drained document of two full leaf groups (its length a
\* multiple of the leaf and of the group capacity) with a three-byte
\* character.
C1_Witness ==
    /\ Drained /\ startPos = 0
    /\ Len(src) = 2 * maxBytesPerLeaf * maxNodesPerGroup
    /\ Len(heap.leafGroups) = 2
    /\ \E k \in 1..Len(src) : src[k] = 226

\* C2: a cursor created at a position charPos <= totalChars and drained has
\* returned exactly the bytes from the lead byte of character charPos to
\* the end of the document.
C2_Positional ==
    (Drained /\ startPos <= NumChars(src)) => out = Suffix(src, startPos)

\* C2 witness: a descent through three inner layers to a character inside
\* the document whose predecessor ends in the leaf the cursor starts in.
C2_Witness ==
    /\ Drained
    /\ Len(heap.layers) = 3
    /\ startPos > 0 /\ startPos < NumChars(src)
    /\ IsContinuation(src[CharOffset(src, startPos)])
    /\ CharOffset(src, startPos) % maxBytesPerLeaf = 1
    /\ out = Suffix(src, startPos)

\* C3 as stated: for charPos >= totalChars the cursor is created at the end
\* of the last leaf of the last leaf group, and its first Read returns zero
\* bytes and io.EOF.
C3_PastEndAsStated ==
    (pc = "cursor" /\ startPos >= NumChars(src)) =>
        /\ rd.err = "none" => cursor = EndCursor
        /\ rd.first => (rd.n = 0 /\ rd.err = "EOF")

\* C3 amended: for charPos >= totalChars the cursor is created at the end of
\* the last leaf of the last leaf group; its first Read returns zero bytes,
\* with io.EOF when the buffer is not empty and with a nil error when
\* len(b) = 0.
C3_PastEnd ==
    (pc = "cursor" /\ startPos >= NumChars(src)) =>
        /\ rd.err = "none" => cursor = EndCursor
        /\ rd.first => /\ rd.before = EndCursor
                       /\ rd.n = 0
                       /\ rd.len >= 1 => rd.err = "EOF"
                       /\ rd.len = 0 => rd.err = "nil"

\* C3 witness: a first Read into a non-empty buffer, past the end of a
\* bulk-loaded document of several leaf groups.
C3_Witness ==
    /\ pc = "cursor" /\ startPos > NumChars(src)
    /\ Len(heap.leafGroups) > 1
    /\ rd.first /\ rd.len >= 1 /\ rd.err = "EOF" /\ rd.n = 0

\* The lead-byte count and '\n' count of a leaf's bytes.
RefLeafKey(l) == indexKey(NumChars(LeafBytes(l)), NumLines(LeafBytes(l)))

RECURSIVE RefSumKeys(_, _)
\* The sum of the first k keys of an inner node.
RefSumKeys(n, k) ==
    IF k = 0 THEN indexKey(0, 0)
    ELSE LET r == RefSumKeys(n, k - 1)
         IN  indexKey(r.numChars + n.keys[k].numChars, r.numLines + n.keys[k].numLines)

\* The child group of an inner node of layer k.
ChildGroup(k, n) == IF k = 1 THEN heap.leafGroups[n.child] ELSE heap.layers[k - 1][n.child]

\* The aggregate key of node j of the child group of a node of layer k.
RefChildKey(k, cg, j) ==
    IF k = 1 THEN RefLeafKey(cg.nodes[j]) ELSE RefSumKeys(cg.nodes[j], cg.nodes[j].numKeys)

C5_InvalidRejected ==
    /\ ~validator.ok => (pc = "failed" /\ tree = nilTree /\ err # "nil")
    /\ (pc \notin {"idle", "load"} /\ validator.need > 0) =>
           (pc = "failed" /\ tree = nilTree /\ err # "nil")
    /\ tree # nilTree => (ValidateEnd(validator) /\ WellFormed(src))

\* C5 witness: a stream that ends inside a three-byte character after
\* valid bytes were loaded.
C5_Witness ==
    /\ pc = "failed" /\ err = "invalid UTF-8"
    /\ validator.ok /\ validator.need > 0
    /\ Len(src) > maxBytesPerLeaf
    /\ rres.n = 0

\* C6: when a Read of the stream returns an error other than io.EOF,
\* NewTreeFromReader returns a nil tree and that same error.
C6_StreamError ==
    rres.err \in StreamErrors => (pc = "failed" /\ tree = nilTree /\ err = rres.err)

\* C6 witness: the failing Read returned bytes, after earlier Reads whose
\* bytes were loaded.
C6_Witness ==
    /\ rres.err \in StreamErrors /\ rres.n > 0
    /\ Len(src) > 0
    /\ pc = "failed" /\ err = rres.err

\* C7: the bytes a cursor returns never start with a continuation byte, and
\* drained they are well-formed UTF-8.
C7_NoSplit ==
    pc = "cursor" =>
        /\ out # << >> => ~IsContinuation(out[1])
        /\ rd.err = "EOF" => WellFormed(out)

\* C7 witness: the character before the cursor's has its bytes in two
\* adjacent leaf groups.
C7_Witness ==
    /\ Drained /\ out # << >>
    /\ startPos > 0
    /\ CharOffset(src, startPos) > maxBytesPerLeaf * maxNodesPerGroup
    /\ CharOffset(src, startPos) <= maxBytesPerLeaf * maxNodesPerGroup + 2
    /\ IsContinuation(src[maxBytesPerLeaf * maxNodesPerGroup + 1])

\* C8: a Read returns n = min(len(b), R) bytes, R the bytes between the
\* cursor and the end of the document; they are the next n bytes of the
\* document; the cursor advances by n bytes; the error is nil when
\* n = len(b) and io.EOF otherwise.
C8_Read ==
    (pc = "cursor" /\ rd.err # "none") =>
        LET p == AbsPos(rd.before)
            R == Len(src) - p
        IN  /\ rd.n = Min(rd.len, R)
            /\ rd.data = SubSeq(src, p + 1, p + rd.n)
            /\ AbsPos(cursor) = p + rd.n
            /\ rd.err = IF rd.n = rd.len THEN "nil" ELSE "EOF"
            /\ rd.n < rd.len => AbsPos(cursor) = Len(src)

\* C8 witness: a full read that crosses from one leaf group to the next.
C8_Witness ==
    /\ pc = "cursor" /\ rd.err = "nil"
    /\ rd.n = rd.len /\ rd.n >= 2
    /\ rd.before.group # 0 /\ cursor.group # 0
    /\ rd.before.group # cursor.group
    /\ cursor.textByteOffset > 0

\* C9 as stated: once the cursor's group is absent, every Read returns zero
\* bytes and io.EOF.
C9_AbsorbingAsStated ==
    (pc = "cursor" /\ rd.err # "none" /\ rd.before.group = 0) =>
        (rd.n = 0 /\ rd.err = "EOF")

\* C9 amended: once the cursor's group is absent it stays absent and every
\* Read returns zero bytes, with io.EOF when the buffer is not empty and
\* with a nil error when len(b) = 0; a Read returns no other error.
C9_Absorbing ==
    /\ (pc = "cursor" /\ rd.err # "none" /\ rd.before.group = 0) =>
           /\ cursor.group = 0
           /\ rd.n = 0
           /\ rd.err = IF rd.len = 0 THEN "nil" ELSE "EOF"
    /\ rd.err \in {"none", "nil", "EOF"}

\* C9 witness: a Read into a non-empty buffer by a cursor that had already
\* moved past the last leaf group of a non-empty document.
C9_Witness ==
    /\ pc = "cursor" /\ rd.err = "EOF"
    /\ rd.before.group = 0 /\ rd.len >= 1
    /\ out # << >>

\* The empty document: a root group of one inner node with the single key
\* (0, 0), whose child is a leaf group of one empty leaf without prev/next.
EmptyShape ==
    /\ Len(heap.layers) = 1 /\ Len(heap.layers[1]) = 1
    /\ tree.root = [layer |-> 1, idx |-> 1]
    /\ heap.layers[1][1].numNodes = 1
    /\ heap.layers[1][1].nodes[1].numKeys = 1
    /\ heap.layers[1][1].nodes[1].keys[1] = indexKey(0, 0)
    /\ heap.layers[1][1].nodes[1].child = 1
    /\ Len(heap.leafGroups) = 1
    /\ heap.leafGroups[1].numNodes = 1
    /\ heap.leafGroups[1].nodes[1].numBytes = 0
    /\ heap.leafGroups[1].prev = 0 /\ heap.leafGroups[1].next = 0

\* C10: the tree of NewTree, and the tree of NewTreeFromReader for a stream
\* that delivers no bytes, have the shape of the empty document.
C10_EmptyDocument ==
    (HasTree /\ src = << >>) => EmptyShape

\* C10 witness: NewTreeFromReader returned the tree of a stream whose first
\* Read returned 0, io.EOF.
C10_Witness ==
    /\ pc = "tree" /\ src = << >>
    /\ rres = [n |-> 0, err |-> "EOF"]
    /\ EmptyShape

\* A cursor no Read has moved yet.
Fresh == pc = "cursor" /\ rd.err = "none"

RECURSIVE PathNodeAt(_)
\* The inner node of layer k the descent to the cursor went through: the
\* node, [g, i] for nodes[i - 1] of group g, whose child group holds the
\* node the descent took in the layer below.
PathNodeAt(k) ==
    LET below == IF k = 1 THEN cursor.group ELSE PathNodeAt(k - 1).g
    IN  CHOOSE p \in {[g |-> g, i |-> i] : g \in 1..Len(heap.layers[k]),
                                          i \in 1..maxNodesPerGroup} :
            /\ p.i <= heap.layers[k][p.g].numNodes
            /\ heap.layers[k][p.g].nodes[p.i].child = below

\* The index of the child the descent took at the node of layer k.
ChosenChild(k) == IF k = 1 THEN cursor.nodeIdx ELSE PathNodeAt(k - 1).i - 1

RECURSIVE FirstLeafGroup(_, _)
\* The leftmost leaf group below group g of layer k (layer 0: g itself).
FirstLeafGroup(k, g) ==
    IF k = 0 THEN g ELSE FirstLeafGroup(k - 1, heap.layers[k][g].nodes[1].child)

\* The characters of the document before the subtree of node n of layer k.
CharsBeforeNode(k, n) ==
    NumChars(SubSeq(src, 1, BytesBeforeGroup(FirstLeafGroup(k - 1, n.child))))

\* C11: at every inner node of the descent, a charPos equal to the
\* characters before the node plus the counts of its first i children
\* (0 < i < numKeys) is not resolved in a child before child i; a child
\* without characters is taken only if it is the last one; and the cursor
\* starts at the lead byte of character charPos, after the continuation
\* bytes that open the leaf it ends in.
C11_TieBreak ==
    Fresh =>
        /\ \A k \in 1..Len(heap.layers) :
             LET n == heap.layers[k][PathNodeAt(k).g].nodes[PathNodeAt(k).i]
                 ci == ChosenChild(k)
             IN  /\ \A i \in 1..(n.numKeys - 1) :
                        startPos = CharsBeforeNode(k, n) + RefSumKeys(n, i).numChars
                            => ci >= i
                 /\ ci < n.numKeys - 1 => n.keys[ci + 1].numChars > 0
        /\ AbsPos(cursor) = CharOffset(src, startPos)
        /\ startPos < NumChars(src) =>
             LET l == heap.leafGroups[cursor.group].nodes[cursor.nodeIdx + 1]
             IN  /\ cursor.textByteOffset < l.numBytes
                 /\ ~IsContinuation(l.textBytes[cursor.textByteOffset + 1])

\* C11 witness: charPos is the number of characters of the first leaf
\* group, which is the first key of a node of the second inner layer, and
\* the second leaf group opens with continuation bytes the cursor skips.
C11_Witness ==
    /\ Fresh
    /\ Len(heap.layers) = 3
    /\ cursor.group = 2 /\ cursor.nodeIdx = 0 /\ cursor.textByteOffset > 0
    /\ startPos = NumChars(SubSeq(src, 1, BytesBeforeGroup(2)))
    /\ startPos = heap.layers[2][1].nodes[1].keys[1].numChars

\* The loader has leaves: it is loading, or it has returned the tree, which
\* no later operation changes.
Loaded == pc \in {"load", "tree"}

\* The loader has returned the tree.
Returned == pc = "tree"

\* The leaf groups produced so far, in the order of their creation.
LoadedGroups == IF pc = "load" THEN ld.leafGroups ELSE heap.leafGroups

RECURSIVE GroupBytes(_, _)
\* The bytes of the first k leaves of a leaf group, in order.
GroupBytes(g, k) ==
    IF k = 0 THEN << >> ELSE GroupBytes(g, k - 1) \o LeafBytes(g.nodes[k])

RECURSIVE AllBytes(_, _)
\* The bytes of the first k leaf groups, in order.
AllBytes(G, k) ==
    IF k = 0 THEN << >> ELSE AllBytes(G, k - 1) \o GroupBytes(G[k], G[k].numNodes)

CeilDiv(a, b) == (a + b - 1) \div b

\* C12: the leaves hold the N bytes of the stream in stream order; every
\* leaf but the last of the document is full, every leaf group but the last
\* is full, the last leaf is empty only when N = 0, and there are
\* max(1, ceil(N / (maxBytesPerLeaf * maxNodesPerGroup))) leaf groups.
C12_LeafPacking ==
    Loaded =>
        LET G == LoadedGroups
            N == Len(src)
        IN  /\ AllBytes(G, Len(G)) = src
            /\ \A gi \in 1..Len(G) :
                 /\ G[gi].numNodes \in 1..maxNodesPerGroup
                 /\ gi < Len(G) => G[gi].numNodes = maxNodesPerGroup
                 /\ \A i \in 1..G[gi].numNodes :
                      /\ G[gi].nodes[i].numBytes <= maxBytesPerLeaf
                      /\ ~(gi = Len(G) /\ i = G[gi].numNodes)
                            => G[gi].nodes[i].numBytes = maxBytesPerLeaf
            /\ N > 0 => G[Len(G)].nodes[G[Len(G)].numNodes].numBytes > 0
            /\ Len(G) = IF N = 0 THEN 1
                        ELSE CeilDiv(N, maxBytesPerLeaf * maxNodesPerGroup)

\* C12 witness: a returned tree whose bytes fill two leaf groups exactly, so
\* that the last leaf of the document is full and no third group exists.
C12_Witness ==
    /\ pc = "tree"
    /\ Len(src) = 2 * maxBytesPerLeaf * maxNodesPerGroup
    /\ Len(heap.leafGroups) = 2
    /\ heap.leafGroups[2].nodes[maxNodesPerGroup].numBytes = maxBytesPerLeaf

RECURSIVE ListFrom(_, _, _)
\* The leaf groups met by following next from group g, n groups at most.
ListFrom(G, g, n) ==
    IF g = 0 \/ n = 0 THEN << >> ELSE <<g>> \o ListFrom(G, G[g].next, n - 1)

RECURSIVE DescentFrom(_, _, _)
\* The leaf groups below nodes i.. of group g of layer k (layer 0: the leaf
\* group g itself), left to right.
DescentFrom(k, g, i) ==
    IF k = 0 THEN <<g>>
    ELSE IF i > heap.layers[k][g].numNodes THEN << >>
    ELSE DescentFrom(k - 1, heap.layers[k][g].nodes[i].child, 1)
             \o DescentFrom(k, g, i + 1)

\* C13: each produced leaf group's next is the group produced after it and
\* that group's prev is the former; the first has no prev and the last no
\* next; following next from the first ends, without meeting a group twice,
\* and visits the leaf groups in the order a left-to-right descent from the
\* root reaches them.
C13_LeafGroupList ==
    Loaded =>
        LET G == LoadedGroups
            chain == ListFrom(G, 1, Len(G) + 1)
        IN  /\ \A gi \in 1..Len(G) :
                 /\ G[gi].next = IF gi < Len(G) THEN gi + 1 ELSE 0
                 /\ G[gi].prev = gi - 1
            /\ Len(chain) = Len(G)
            /\ \A a, b \in 1..Len(chain) : chain[a] = chain[b] => a = b
            /\ Returned => chain = DescentFrom(tree.root.layer, tree.root.idx, 1)

\* C13 witness: a returned tree with three leaf groups.
C13_Witness ==
    /\ pc = "tree"
    /\ Len(heap.leafGroups) = 3
    /\ heap.leafGroups[2].prev = 1 /\ heap.leafGroups[2].next = 3

RECURSIVE ChildrenOf(_, _, _)
\* The child pointers of the inner nodes of layer k, from node i of group g
\* on, in the order of the nodes.
ChildrenOf(k, g, i) ==
    IF g > Len(heap.layers[k]) THEN << >>
    ELSE IF i > heap.layers[k][g].numNodes THEN ChildrenOf(k, g + 1, 1)
    ELSE <<heap.layers[k][g].nodes[i].child>> \o ChildrenOf(k, g, i + 1)

\* The number of groups of layer k (layer 0: the leaf groups).
GroupsOfLayer(k) == IF k = 0 THEN Len(heap.leafGroups) ELSE Len(heap.layers[k])

\* C14: in every inner layer the nodes' children are the groups of the
\* layer below, each once and in their order; every inner group holds 1 to
\* maxNodesPerGroup nodes, and every inner group of a layer but its last
\* holds maxNodesPerGroup.
C14_InnerLayers ==
    Returned =>
        \A k \in 1..Len(heap.layers) :
            /\ ChildrenOf(k, 1, 1) = [j \in 1..GroupsOfLayer(k - 1) |-> j]
            /\ \A g \in 1..Len(heap.layers[k]) :
                 /\ heap.layers[k][g].numNodes \in 1..maxNodesPerGroup
                 /\ g < Len(heap.layers[k])
                       => heap.layers[k][g].numNodes = maxNodesPerGroup

\* C14 witness: three leaf groups, so that the first inner layer has a full
\* group followed by a group of one node.
C14_Witness ==
    /\ pc = "tree"
    /\ GroupsOfLayer(0) = 3
    /\ GroupsOfLayer(1) = 2
    /\ heap.layers[1][1].numNodes = maxNodesPerGroup
    /\ heap.layers[1][2].numNodes = 1
    /\ heap.layers[1][2].nodes[1].child = 3

\* C15 as stated: the build stops at the first inner layer of exactly one
\* group, so that no inner layer below the root's consists of one group.
C15_StopsAtOneGroupAsStated ==
    Returned =>
        /\ tree.root = [layer |-> Len(heap.layers), idx |-> 1]
        /\ Len(heap.layers[Len(heap.layers)]) = 1
        /\ \A k \in 1..(Len(heap.layers) - 1) : Len(heap.layers[k]) # 1

\* The layer consists of one group that holds one node.
OneGroupOneNode(layer) == Len(layer) = 1 /\ layer[1].numNodes = 1

\* C15: the build stops at the first inner layer that consists of exactly
\* one group holding exactly one node; that group is the root.
C15_RootSelection ==
    Returned =>
        /\ tree.root = [layer |-> Len(heap.layers), idx |-> 1]
        /\ OneGroupOneNode(heap.layers[Len(heap.layers)])
        /\ \A k \in 1..(Len(heap.layers) - 1) : ~OneGroupOneNode(heap.layers[k])

\* C15 witness: two leaf groups; the first inner layer is one group of two
\* nodes, and the root is a second inner layer above it.
C15_Witness ==
    /\ pc = "tree"
    /\ Len(heap.leafGroups) = 2
    /\ Len(heap.layers) = 2
    /\ Len(heap.layers[1]) = 1 /\ heap.layers[1][1].numNodes = 2
    /\ tree.root = [layer |-> 2, idx |-> 1]

\* C16: the root group holds exactly one inner node, below which every leaf
\* group lies, and the descent from it finds every character of the
\* document; the tree has one inner layer for one leaf group, two for 2 to
\* maxNodesPerGroup leaf groups and three or more beyond that.
C16_SingleNodeRoot ==
    pc = "tree" =>
        LET rootGroup == heap.layers[tree.root.layer][tree.root.idx]
            nGroups == Len(heap.leafGroups)
        IN  /\ rootGroup.numNodes = 1
            /\ DescentFrom(tree.root.layer - 1, rootGroup.nodes[1].child, 1)
                   = [j \in 1..nGroups |-> j]
            /\ \A charPos \in 0..(NumChars(src) - 1) :
                   AbsPos(treeCursorAtPosition(heap, tree.root, charPos))
                       = CharOffset(src, charPos)
            /\ nGroups = 1 => Len(heap.layers) = 1
            /\ nGroups \in 2..maxNodesPerGroup => Len(heap.layers) = 2
            /\ nGroups > maxNodesPerGroup => Len(heap.layers) >= 3

\* C16 witness: more leaf groups than one inner group holds nodes, and a
\* tree of three inner layers above them.
C16_Witness ==
    /\ pc = "tree"
    /\ Len(heap.leafGroups) = maxNodesPerGroup + 1
    /\ Len(heap.layers) = 3
    /\ heap.layers[3][1].numNodes = 1
    /\ heap.layers[2][1].numNodes = 2

\* The loader's state after one Read that returns all of S.
LoadedAtOnce(S) == appendBytes(bulkLoadStart, S, 0)

\* C17: however the Reads of the stream have split the bytes S accepted so
\* far, the loader's leaves and validator are those of S delivered by one
\* Read, and the returned tree is the tree built from those leaves.
C17_ChunkingIndependence ==
    /\ pc = "load" =>
         /\ ld = LoadedAtOnce(src)
         /\ validator = ValidateBytes(NewValidator, src)
    /\ Returned =>
         /\ heap.leafGroups = LoadedAtOnce(src).leafGroups
         /\ heap.layers = buildInnerNodesFromLeaves(LoadedAtOnce(src).leafGroups)

\* C17 witness: the last Read of a document of more than one leaf has
\* returned, together with io.EOF, the single last byte of a multi-byte
\* character whose first bytes an earlier Read returned.
C17_Witness ==
    /\ pc = "load"
    /\ rres = [n |-> 1, err |-> "EOF"]
    /\ Len(src) > maxBytesPerLeaf
    /\ IsContinuation(src[Len(src)])
    /\ validator.need = 0

\* C18: once a Read of the stream has returned zero bytes, with io.EOF or
\* with a nil error, the load has ended and no further Read is made: the
\* loader has returned the tree of the bytes received before, with a nil
\* error, when those end on a character boundary, and an error otherwise.
C18_EndOfStream ==
    (rres.n = 0 /\ rres.err \in {"nil", "EOF"}) =>
        /\ pc \in {"tree", "failed"}
        /\ pc = "tree" =>
             /\ err = "nil" /\ ValidateEnd(validator)
             /\ AllBytes(heap.leafGroups, Len(heap.leafGroups)) = src
             /\ heap.layers = buildInnerNodesFromLeaves(heap.leafGroups)
        /\ pc = "failed" =>
             /\ err = "invalid UTF-8" /\ ~ValidateEnd(validator)
             /\ tree = nilTree

\* C18 witness: a Read returned 0 bytes and a nil error after the bytes of
\* more than one leaf, and the loader returned their tree.
C18_Witness ==
    /\ rres = [n |-> 0, err |-> "nil"]
    /\ pc = "tree" /\ err = "nil"
    /\ Len(src) > maxBytesPerLeaf

\* The cursor stands in no group, or at a node of its group and at an
\* offset within that node's bytes or at their end.
InRange(c) ==
    \/ c.group = 0
    \/ /\ c.group \in 1..Len(heap.leafGroups)
       /\ c.nodeIdx < heap.leafGroups[c.group].numNodes
       /\ c.textByteOffset
              <= heap.leafGroups[c.group].nodes[c.nodeIdx + 1].numBytes

\* C19: a cursor is in range when CursorAtPosition returns it, before every
\* Read and after every Read, whatever the length of the buffer.
C19_CursorInRange ==
    pc = "cursor" =>
        /\ InRange(cursor)
        /\ rd.err # "none" => InRange(rd.before)

\* C19 witness: a Read that filled its buffer has taken the cursor from the
\* last leaf of the first leaf group into the second group.
C19_Witness ==
    /\ pc = "cursor" /\ rd.err = "nil" /\ rd.n = rd.len /\ rd.n > 0
    /\ rd.before.group = 1 /\ rd.before.nodeIdx = maxNodesPerGroup - 1
    /\ cursor.group = 2
    /\ InRange(cursor)

\* The place of a cursor's group in the list of leaf groups, after all of
\* them for a cursor without group.
Place(c) ==
    LET chain == ListFrom(heap.leafGroups, 1, Len(heap.leafGroups) + 1)
    IN  IF c.group = 0 THEN Len(chain) + 1
        ELSE CHOOSE i \in 1..Len(chain) : chain[i] = c.group

\* Cursor a is not after cursor b, by (place of the group, nodeIdx,
\* textByteOffset).
PosLE(a, b) ==
    \/ Place(a) < Place(b)
    \/ /\ Place(a) = Place(b)
       /\ \/ a.nodeIdx < b.nodeIdx
          \/ a.nodeIdx = b.nodeIdx /\ a.textByteOffset <= b.textByteOffset

\* C20: a Read never moves the cursor backwards; it returns the document
\* bytes between the cursor's position before and after it, so that the
\* Reads of a cursor return consecutive bytes of the document, none twice.
C20_ForwardOnly ==
    (pc = "cursor" /\ rd.err # "none") =>
        /\ PosLE(rd.before, cursor)
        /\ AbsPos(cursor) = AbsPos(rd.before) + rd.n
        /\ rd.data = SubSeq(src, AbsPos(rd.before) + 1, AbsPos(rd.before) + rd.n)
        /\ AbsPos(cursor) = CharOffset(src, startPos) + Len(out)
        /\ out = SubSeq(src, CharOffset(src, startPos) + 1, AbsPos(cursor))

\* C20 witness: a second or later Read that has moved the cursor from the
\* second leaf group to the end of the document, where it has no group.
C20_Witness ==
    /\ pc = "cursor" /\ rd.err = "nil" /\ rd.n > 0
    /\ Len(out) > rd.n
    /\ rd.before.group = 2
    /\ cursor.group = 0
    /\ Len(heap.leafGroups) = 2

RECURSIVE LeavesInGroups(_)
\* The leaves of the first k leaf groups.
LeavesInGroups(k) ==
    IF k = 0 THEN 0 ELSE LeavesInGroups(k - 1) + heap.leafGroups[k].numNodes

\* The leaves before the cursor's; all leaves for a cursor without group.
LeavesBefore(c) ==
    IF c.group = 0 THEN LeavesInGroups(Len(heap.leafGroups))
    ELSE LeavesInGroups(c.group - 1) + c.nodeIdx

\* The bytes and the leaves the cursor has not passed yet.
ReadVariant(c) ==
    (Len(src) - AbsPos(c)) + (LeavesInGroups(Len(heap.leafGroups)) - LeavesBefore(c))

RECURSIVE BuildReturnsWithin(_, _)
\* The loop of buildInnerNodesFromLeaves, started on groups with the keys
\* childKeys, returns within n iterations.
BuildReturnsWithin(childKeys, n) ==
    /\ n > 0
    /\ LET parentGroups == addChildren(<<innerNodeGroup(0)>>, childKeys, 1)
       IN  \/ isRootLayer(parentGroups)
           \/ BuildReturnsWithin(
                  [j \in 1..Len(parentGroups) |-> innerGroupKeys(parentGroups[j])],
                  n - 1)

\* C21: an iteration of Read's loop that does not return copies at least
\* one byte or takes the cursor to a later leaf, and lowers the number of
\* bytes and leaves not yet passed, which is never negative; a Read with a
\* buffer of one byte or more that does not return io.EOF has moved the
\* cursor towards the end of the document, and it returns io.EOF when the
\* cursor is at the end; and the loop of buildInnerNodesFromLeaves returns
\* within as many iterations as there are leaf groups, plus one.
C21_Termination ==
    /\ (pc = "reading" /\ rd.n # rd.len /\ cursor.group # 0) =>
         LET r == readStep(heap, [c |-> cursor, i |-> rd.n, data |-> rd.data], rd.len)
         IN  /\ r.i > rd.n \/ LeavesBefore(r.c) > LeavesBefore(cursor)
             /\ ReadVariant(r.c) < ReadVariant(cursor)
             /\ r.i <= rd.len
    /\ pc = "reading" =>
         /\ ReadVariant(cursor) \in 0..(Len(src) + LeavesInGroups(Len(heap.leafGroups)))
         /\ rd.n <= rd.len
    /\ (pc = "cursor" /\ rd.err \in {"nil", "EOF"} /\ rd.len >= 1) =>
         /\ rd.err = "nil" => (rd.n >= 1 /\ AbsPos(cursor) > AbsPos(rd.before))
         /\ AbsPos(rd.before) = Len(src) => rd.err = "EOF"
         /\ AbsPos(cursor) <= Len(src)
    /\ pc = "load" =>
         BuildReturnsWithin(
             [j \in 1..Len(ld.leafGroups) |-> leafGroupKeys(ld.leafGroups[j])],
             Len(ld.leafGroups) + 1)
    /\ Returned => Len(heap.layers) <= Len(heap.leafGroups) + 1

\* C21 witness: a Read in progress has copied bytes, has taken the cursor
\* from the first leaf group into the second, and has more iterations to
\* make, over a tree of three inner layers.
C21_Witness ==
    /\ pc = "reading"
    /\ rd.n > 0 /\ rd.n < rd.len
    /\ rd.before.group = 1 /\ cursor.group = 2
    /\ Len(heap.layers) = 3

====
